---- MODULE Spec2Model ----
(***************************************************************************)
(* A model of the abomonation crate (src/src/lib.rs): encode, decode and   *)
(* verify over a byte buffer that lives at an address, with the built-in   *)
(* Abomonation implementations for u8, (), Option<T>, tuples, String,      *)
(* Vec<T>, &[T] and Box<T>.                                                *)
(*                                                                         *)
(* Memory representation.  The crate copies "the memory as laid out by the *)
(* serializer" (lib.rs:15-18); the layout modelled here is a little-endian *)
(* target with pointers and usize of WordSize bytes and alignment 1 (no    *)
(* padding): Vec<T> and String are (ptr, cap, len), &[T] is (ptr, len),    *)
(* Box<T> is (ptr), a tuple is its fields in declared order, Option<T> of  *)
(* a pointer-first type uses the null-pointer niche and any other          *)
(* Option<T> is a one-byte discriminant followed by the payload.  Bytes    *)
(* the language leaves uninitialised (the payload of a None) hold an       *)
(* arbitrary byte, chosen with the value.                                  *)
(***************************************************************************)
EXTENDS Integers, Sequences, FiniteSets, TLC

VARIABLES
    bytes,      \* the sink / buffer: a sequence of bytes (Vec<u8>, &mut [u8], &[u8])
    base,       \* the address at which the buffer's first byte currently lives
    encoded,    \* the encode calls made so far: <<[ty, val, at, len]>>
    last        \* the last call made, its arguments and what it returned

vars == <<bytes, base, encoded, last>>

-----------------------------------------------------------------------------
(* Bounds of the model *)

MaxWeight == 3       \* most items (String bytes, Vec / slice elements, Box
                     \* contents) a value owns, at all depths together
MaxValues == 2       \* encode calls into one sink
MaxSink == 10        \* longest sink that holds more than one value

(* Program and target constants *)

EMPTY == 1           \* const EMPTY: *mut () = 0x1
WordSize == 2        \* mem::size_of::<usize>() == mem::size_of::<*mut T>()

ScalarBytes == {7, 200}          \* the u8 values drawn
TextBytes == {97}                \* the bytes a String is made of
JunkBytes == {0, 170}            \* what an uninitialised byte may hold
Addrs == <<256, 300>>            \* the addresses the buffer lives at, in turn
HeapBase == 4096                 \* where the source value's owned memory starts
ExtraCaps == {0, 1}              \* capacity - length of the source's Vecs / Strings

-----------------------------------------------------------------------------
(* Types *)

U8 == [k |-> "u8"]
UnitT == [k |-> "unit"]
StringT == [k |-> "string"]
VecT(T) == [k |-> "vec", of |-> T]
SliceT(T) == [k |-> "slice", of |-> T]
BoxT(T) == [k |-> "box", of |-> T]
OptT(T) == [k |-> "opt", of |-> T]
TupleT(fs) == [k |-> "tuple", fs |-> fs]

\* A type whose first word is a non-null pointer: Option<T> needs no tag.
HasNiche(T) == T.k \in {"vec", "string", "slice", "box"}

RECURSIVE SizeOf(_)
RECURSIVE SizeOfFields(_)
\* mem::size_of::<T>()
SizeOf(T) ==
    CASE T.k = "u8" -> 1
      [] T.k = "unit" -> 0
      [] T.k = "string" -> 3 * WordSize
      [] T.k = "vec" -> 3 * WordSize
      [] T.k = "slice" -> 2 * WordSize
      [] T.k = "box" -> WordSize
      [] T.k = "opt" -> IF HasNiche(T.of) THEN SizeOf(T.of) ELSE 1 + SizeOf(T.of)
      [] T.k = "tuple" -> SizeOfFields(T.fs)

SizeOfFields(fs) ==
    IF fs = <<>> THEN 0 ELSE SizeOf(Head(fs)) + SizeOfFields(Tail(fs))

\* Offset of field i (1-based) of a tuple with fields fs.
FieldOff(fs, i) == SizeOfFields(SubSeq(fs, 1, i - 1))

\* Offset of the payload inside an Option<T>.
PayloadOff(T) == IF HasNiche(T.of) THEN 0 ELSE 1

\* Offset of the len field inside the header of a Vec, String or slice.
LenOff(T) == IF T.k = "slice" THEN WordSize ELSE 2 * WordSize

-----------------------------------------------------------------------------
(* Bytes and words *)

RECURSIVE Pow256(_)
Pow256(i) == IF i = 0 THEN 1 ELSE 256 * Pow256(i - 1)

\* The little-endian bytes of a word.
WordBytes(n) == [i \in 1..WordSize |-> (n \div Pow256(i - 1)) % 256]

RECURSIVE WordAt(_, _, _)
WordAt(mem, off, i) ==
    IF i > WordSize THEN 0 ELSE mem[off + i] * Pow256(i - 1) + WordAt(mem, off, i + 1)

\* The word stored at byte offset off (0-based) of mem.
ReadWord(mem, off) == WordAt(mem, off, 1)

\* mem with the bytes bs written at byte offset off (0-based).
WriteBytes(mem, off, bs) ==
    [i \in 1..Len(mem) |->
        IF off < i /\ i <= off + Len(bs) THEN bs[i - off] ELSE mem[i]]

Fill(n, b) == [i \in 1..n |-> b]

RECURSIVE Concat(_)
Concat(ss) == IF ss = <<>> THEN <<>> ELSE Head(ss) \o Concat(Tail(ss))

-----------------------------------------------------------------------------
(* Values.  An abstract value is what T's equality compares: u8 [n],       *)
(* () [unit], Option [some] or [some, v], tuple [fs], String [bs],         *)
(* Vec and slice [es], Box [v].  A source value is an abstract value       *)
(* placed in memory: every Vec, String, slice and Box also has the address *)
(* ptr of the memory it owns, Vec and String a capacity cap, and a None    *)
(* the byte junk found in its uninitialised payload.                       *)

SeqsUpTo(S, n) == UNION {[1..m -> S] : m \in 0..n}

RECURSIVE Weight(_, _)
RECURSIVE WeightSeq(_, _)
RECURSIVE WeightFields(_, _)
\* The number of items a value owns: String bytes, Vec and slice elements, Box
\* contents, at every depth.
Weight(T, a) ==
    CASE T.k \in {"u8", "unit"} -> 0
      [] T.k = "string" -> Len(a.bs)
      [] T.k \in {"vec", "slice"} -> Len(a.es) + WeightSeq(T.of, a.es)
      [] T.k = "box" -> 1 + Weight(T.of, a.v)
      [] T.k = "opt" -> IF a.some THEN Weight(T.of, a.v) ELSE 0
      [] T.k = "tuple" -> WeightFields(T.fs, a.fs)

WeightSeq(T, es) ==
    IF es = <<>> THEN 0 ELSE Weight(T, Head(es)) + WeightSeq(T, Tail(es))

WeightFields(fs, as) ==
    IF fs = <<>> THEN 0
    ELSE Weight(Head(fs), Head(as)) + WeightFields(Tail(fs), Tail(as))

RECURSIVE AbsValues(_, _)
RECURSIVE AbsSeqs(_, _)
RECURSIVE AbsFields(_, _)
\* The abstract values of type T that own at most w items.
AbsValues(T, w) ==
    CASE T.k = "u8" -> {[n |-> b] : b \in ScalarBytes}
      [] T.k = "unit" -> {[unit |-> TRUE]}
      [] T.k = "string" -> {[bs |-> s] : s \in SeqsUpTo(TextBytes, w)}
      [] T.k \in {"vec", "slice"} -> {[es |-> s] : s \in AbsSeqs(T.of, w)}
      [] T.k = "box" -> IF w < 1 THEN {} ELSE {[v |-> x] : x \in AbsValues(T.of, w - 1)}
      [] T.k = "opt" -> {[some |-> FALSE]}
                           \cup {[some |-> TRUE, v |-> x] : x \in AbsValues(T.of, w)}
      [] T.k = "tuple" -> {[fs |-> s] : s \in AbsFields(T.fs, w)}

AbsSeqs(T, w) ==
    {<<>>} \cup
    (IF w < 1 THEN {}
     ELSE UNION { {<<x>> \o r : r \in AbsSeqs(T, w - 1 - Weight(T, x))}
                  : x \in AbsValues(T, w - 1) })

AbsFields(fs, w) ==
    IF fs = <<>> THEN {<<>>}
    ELSE UNION { {<<x>> \o r : r \in AbsFields(Tail(fs), w - Weight(Head(fs), x))}
                 : x \in AbsValues(Head(fs), w) }

RECURSIVE Realize(_, _, _, _, _)
RECURSIVE RealizeSeq(_, _, _, _, _)
RECURSIVE RealizeFields(_, _, _, _, _)
\* The source value for abstract value a, its owned memory allocated from address
\* next on, every Vec and String with extra unused capacity: [v, next].
\* A zero-sized allocation is not made: its pointer is the dangling address that
\* equals the alignment (1).
Realize(T, a, next, extra, junk) ==
    CASE T.k \in {"u8", "unit"} -> [v |-> a, next |-> next]
      [] T.k = "string" ->
            LET cap == Len(a.bs) + extra
            IN  [v |-> [ptr |-> IF cap = 0 THEN 1 ELSE next, cap |-> cap, bs |-> a.bs],
                 next |-> next + cap]
      [] T.k = "vec" ->
            LET cap == Len(a.es) + extra
                sz == cap * SizeOf(T.of)
                r == RealizeSeq(T.of, a.es, next + sz, extra, junk)
            IN  [v |-> [ptr |-> IF sz = 0 THEN 1 ELSE next, cap |-> cap, es |-> r.vs],
                 next |-> r.next]
      [] T.k = "slice" ->
            LET sz == Len(a.es) * SizeOf(T.of)
                r == RealizeSeq(T.of, a.es, next + sz, extra, junk)
            IN  [v |-> [ptr |-> IF sz = 0 THEN 1 ELSE next, es |-> r.vs],
                 next |-> r.next]
      [] T.k = "box" ->
            LET sz == SizeOf(T.of)
                r == Realize(T.of, a.v, next + sz, extra, junk)
            IN  [v |-> [ptr |-> IF sz = 0 THEN 1 ELSE next, v |-> r.v],
                 next |-> r.next]
      [] T.k = "opt" ->
            IF a.some
            THEN LET r == Realize(T.of, a.v, next, extra, junk)
                 IN  [v |-> [some |-> TRUE, v |-> r.v], next |-> r.next]
            ELSE [v |-> [some |-> FALSE, junk |-> junk], next |-> next]
      [] T.k = "tuple" ->
            LET r == RealizeFields(T.fs, a.fs, next, extra, junk)
            IN  [v |-> [fs |-> r.vs], next |-> r.next]

RealizeSeq(T, as, next, extra, junk) ==
    IF as = <<>> THEN [vs |-> <<>>, next |-> next]
    ELSE LET h == Realize(T, Head(as), next, extra, junk)
             r == RealizeSeq(T, Tail(as), h.next, extra, junk)
         IN  [vs |-> <<h.v>> \o r.vs, next |-> r.next]

RealizeFields(fs, as, next, extra, junk) ==
    IF fs = <<>> THEN [vs |-> <<>>, next |-> next]
    ELSE LET h == Realize(Head(fs), Head(as), next, extra, junk)
             r == RealizeFields(Tail(fs), Tail(as), h.next, extra, junk)
         IN  [vs |-> <<h.v>> \o r.vs, next |-> r.next]

RECURSIVE Abs(_, _)
\* What T's equality sees of a source value: the value without addresses,
\* capacities and uninitialised bytes.
Abs(T, v) ==
    CASE T.k \in {"u8", "unit"} -> v
      [] T.k = "string" -> [bs |-> v.bs]
      [] T.k \in {"vec", "slice"} -> [es |-> [i \in 1..Len(v.es) |-> Abs(T.of, v.es[i])]]
      [] T.k = "box" -> [v |-> Abs(T.of, v.v)]
      [] T.k = "opt" -> IF v.some THEN [some |-> TRUE, v |-> Abs(T.of, v.v)]
                        ELSE [some |-> FALSE]
      [] T.k = "tuple" -> [fs |-> [i \in 1..Len(v.fs) |-> Abs(T.fs[i], v.fs[i])]]

\* The types values are drawn from.
Types ==
    { U8, UnitT, StringT, VecT(U8), VecT(StringT), VecT(UnitT),
      VecT(TupleT(<<U8, StringT>>)), VecT(VecT(U8)), VecT(OptT(StringT)),
      OptT(U8), OptT(StringT), OptT(TupleT(<<U8, StringT>>)),
      TupleT(<<U8, StringT>>), TupleT(<<StringT, U8, VecT(U8)>>),
      TupleT(<<U8, UnitT, BoxT(U8), OptT(StringT)>>),
      BoxT(U8), BoxT(StringT), BoxT(VecT(U8)),
      SliceT(U8), SliceT(StringT) }

\* The typed source values encode may be called with.
Inputs ==
    UNION { { [ty |-> T, val |-> Realize(T, a, HeapBase, x, j).v] :
                a \in AbsValues(T, MaxWeight), x \in ExtraCaps, j \in JunkBytes }
            : T \in Types }

-----------------------------------------------------------------------------
(* The raw memory representation of a value *)

RECURSIVE HeaderBytes(_, _)
\* The size_of::<T>() bytes at &v: what slice::from_raw_parts(transmute(typed),
\* size_of::<T>()) and typed_to_bytes read.
HeaderBytes(T, v) ==
    CASE T.k = "u8" -> <<v.n>>
      [] T.k = "unit" -> <<>>
      [] T.k = "string" -> WordBytes(v.ptr) \o WordBytes(v.cap) \o WordBytes(Len(v.bs))
      [] T.k = "vec" -> WordBytes(v.ptr) \o WordBytes(v.cap) \o WordBytes(Len(v.es))
      [] T.k = "slice" -> WordBytes(v.ptr) \o WordBytes(Len(v.es))
      [] T.k = "box" -> WordBytes(v.ptr)
      [] T.k = "opt" ->
            IF HasNiche(T.of)
            THEN IF v.some THEN HeaderBytes(T.of, v.v)
                 ELSE WordBytes(0) \o Fill(SizeOf(T.of) - WordSize, v.junk)
            ELSE IF v.some THEN <<1>> \o HeaderBytes(T.of, v.v)
                 ELSE <<0>> \o Fill(SizeOf(T.of), v.junk)
      [] T.k = "tuple" ->
            Concat([i \in 1..Len(T.fs) |-> HeaderBytes(T.fs[i], v.fs[i])])

\* typed_to_bytes(&self[..]): the element storage of a Vec or slice.
typed_to_bytes(T, es) == Concat([i \in 1..Len(es) |-> HeaderBytes(T, es[i])])

\* Whether the Option<T> stored at offset off of mem is a Some.
IsSome(T, mem, off) ==
    IF HasNiche(T.of) THEN ReadWord(mem, off) # 0 ELSE mem[off + 1] # 0

-----------------------------------------------------------------------------
(* embalm and entomb.  A sink state is [bytes, log]: the sink's bytes and   *)
(* the steps taken on it so far, each [e |-> "write", at, len, what, bs]    *)
(* (the bytes bs, as read from the source at that moment, appended at       *)
(* offset at) or [e |-> "embalm", at, ty] (the header of type               *)
(* ty at offset at neutralised in place).                                   *)

\* Mutant: the pointer is overwritten and the capacity kept.
EmbalmOwned_KeepCap(T, mem, off) == WriteBytes(mem, off, WordBytes(EMPTY))

\* String::embalm, Vec::embalm, <&[T]>::embalm, Box::embalm on the header at
\* offset off: pointer := EMPTY, capacity := length.
EmbalmOwned(T, mem, off) ==
    LET n == ReadWord(mem, off + LenOff(T))
    IN  CASE T.k \in {"string", "vec"} ->
                WriteBytes(mem, off, WordBytes(EMPTY) \o WordBytes(n) \o WordBytes(n))
          [] T.k = "slice" -> WriteBytes(mem, off, WordBytes(EMPTY) \o WordBytes(n))
          [] T.k = "box" -> WriteBytes(mem, off, WordBytes(EMPTY))

RECURSIVE Embalm(_, _, _)
RECURSIVE EmbalmFields(_, _, _, _)
\* T::embalm(&mut self), self being the header at offset off of mem.
Embalm(T, mem, off) ==
    CASE T.k \in {"u8", "unit"} -> mem
      [] T.k \in {"string", "vec", "slice", "box"} -> EmbalmOwned(T, mem, off)
      [] T.k = "opt" ->
            IF IsSome(T, mem, off) THEN Embalm(T.of, mem, off + PayloadOff(T)) ELSE mem
      [] T.k = "tuple" -> EmbalmFields(T.fs, mem, off, 1)

EmbalmFields(fs, mem, off, i) ==
    IF i > Len(fs) THEN mem
    ELSE EmbalmFields(fs, Embalm(fs[i], mem, off + FieldOff(fs, i)), off, i + 1)

\* bytes.write_all(bs)
WriteAll(st, bs, what) ==
    [bytes |-> st.bytes \o bs,
     log |-> Append(st.log, [e |-> "write", at |-> Len(st.bytes), len |-> Len(bs),
                             what |-> what, bs |-> bs])]

\* element.embalm() on the copy at offset off of the sink
EmbalmAt(T, st, off) ==
    [bytes |-> Embalm(T, st.bytes, off),
     log |-> Append(st.log, [e |-> "embalm", at |-> off, ty |-> T])]

\* Mutant: only the first in-buffer element copy is embalmed.
EmbalmElems_FirstOnly(T, st, position, i, n) ==
    IF n = 0 THEN st ELSE EmbalmAt(T, st, position)

RECURSIVE EmbalmElems(_, _, _, _, _)
\* for element in bytes_to_typed::<T>(&mut bytes[position..], len) { element.embalm(); }
EmbalmElems(T, st, position, i, n) ==
    IF i >= n THEN st
    ELSE EmbalmElems(T, EmbalmAt(T, st, position + i * SizeOf(T)), position, i + 1, n)

RECURSIVE Entomb(_, _, _)
RECURSIVE EntombElems(_, _, _, _)
RECURSIVE EntombFields(_, _, _, _)
\* T::entomb(&self, bytes)
Entomb(T, v, st) ==
    CASE T.k \in {"u8", "unit"} -> st
      [] T.k = "string" -> WriteAll(st, v.bs, "tail")
      [] T.k \in {"vec", "slice"} ->
            LET position == Len(st.bytes)
                s1 == WriteAll(st, typed_to_bytes(T.of, v.es), "tail")
                s2 == EmbalmElems(T.of, s1, position, 0, Len(v.es))
            IN  EntombElems(T.of, v.es, s2, 1)
      [] T.k = "box" ->
            LET position == Len(st.bytes)
                s1 == WriteAll(st, HeaderBytes(T.of, v.v), "tail")
                s2 == EmbalmAt(T.of, s1, position)
            IN  Entomb(T.of, v.v, s2)
      [] T.k = "opt" -> IF v.some THEN Entomb(T.of, v.v, st) ELSE st
      [] T.k = "tuple" -> EntombFields(T.fs, v.fs, st, 1)

EntombElems(T, es, st, i) ==
    IF i > Len(es) THEN st ELSE EntombElems(T, es, Entomb(T, es[i], st), i + 1)

RECURSIVE EntombFields_Reversed(_, _, _, _)
\* Mutant: the fields are entombed last to first.
EntombFields_Reversed(fs, vs, st, i) ==
    IF i > Len(fs) THEN st
    ELSE LET j == Len(fs) + 1 - i
         IN  EntombFields_Reversed(fs, vs, Entomb(fs[j], vs[j], st), i + 1)

EntombFields(fs, vs, st, i) ==
    IF i > Len(fs) THEN st ELSE EntombFields(fs, vs, Entomb(fs[i], vs[i], st), i + 1)

\* Mutant: the copy to embalm is taken at the start of the sink, as if the sink
\* had been empty.
encode_AtZero(T, v, sink) ==
    LET s1 == WriteAll([bytes |-> sink, log |-> <<>>], HeaderBytes(T, v), "header")
        s2 == EmbalmAt(T, s1, 0)
    IN  Entomb(T, v, s2)

\* Mutant: the original is entombed before the copy in the sink is embalmed.
encode_EntombFirst(T, v, sink) ==
    LET start == Len(sink)
        s1 == WriteAll([bytes |-> sink, log |-> <<>>], HeaderBytes(T, v), "header")
        s2 == Entomb(T, v, s1)
    IN  EmbalmAt(T, s2, start)

\* encode(typed, bytes): the sink state after the call, the log holding the
\* steps of this call.
encode(T, v, sink) ==
    LET start == Len(sink)
        s1 == WriteAll([bytes |-> sink, log |-> <<>>], HeaderBytes(T, v), "header")
        s2 == EmbalmAt(T, s1, start)
    IN  Entomb(T, v, s2)

-----------------------------------------------------------------------------
(* exhume.  A reader state is [mem, rest, ok, segs]: the buffer's bytes, the *)
(* offset at which the still unclaimed bytes start, whether every call so    *)
(* far returned Some, and the segments claimed so far, each                  *)
(* [owner, ty, at, len]: the header at offset owner, of type ty, claimed len *)
(* bytes at offset at.  The slice being read ends at offset end and the      *)
(* buffer lives at address b, so offset o of it is address b + o.            *)

Fail(st) == [st EXCEPT !.ok = FALSE]

\* Mutant: the length is checked against the whole buffer, not the slice given.
TooShort_WholeBuffer(n, st, end) == n > Len(st.mem) - st.rest

\* binary_len > bytes.len(), self.len() > bytes.len()
TooShort(n, st, end) == n > end - st.rest

\* Mutant: the stored pointer is compared with the address of the buffer's
\* first byte, not with that of the bytes still unclaimed.
AddrMatches_BufferStart(st, self, b) == ReadWord(st.mem, self) = b

\* Mutant: the stored pointer is not compared at all.
AddrMatches_Unchecked(st, self, b) == TRUE

\* the owner's stored pointer == bytes.as_ptr()
AddrMatches(st, self, b) == ReadWord(st.mem, self) = b + st.rest

\* Mutant: the segment is used but the rest is not advanced past it.
Claim_NoAdvance(st, self, T, n) ==
    [st EXCEPT !.segs = Append(st.segs, [owner |-> self, ty |-> T,
                                         at |-> st.rest, len |-> n])]

\* bytes.split_at_mut(n) / &bytes[n..] by the owner header at offset self
Claim(st, self, T, n) ==
    [st EXCEPT !.rest = st.rest + n,
               !.segs = Append(st.segs, [owner |-> self, ty |-> T,
                                         at |-> st.rest, len |-> n])]

\* Mutant: the pointer written is that of the end of the claimed run of n items.
WriteOwned_PastRegion(st, self, p, n) ==
    [st EXCEPT !.mem = WriteBytes(st.mem, self,
                                  WordBytes(p + n) \o WordBytes(n) \o WordBytes(n))]

\* ptr::write(self, from_raw_parts(p, n, n)) for a String or Vec header at self
WriteOwned(st, self, p, n) ==
    [st EXCEPT !.mem = WriteBytes(st.mem, self,
                                  WordBytes(p) \o WordBytes(n) \o WordBytes(n))]

\* *self = slice for a &[T] header at self
WriteSlice(st, self, p, n) ==
    [st EXCEPT !.mem = WriteBytes(st.mem, self, WordBytes(p) \o WordBytes(n))]

\* Mutant: a pointer that is not the sentinel is taken as already exhumed.
WriteBox_TrustStored(st, self, p) ==
    IF ReadWord(st.mem, self) = EMPTY
    THEN [st EXCEPT !.mem = WriteBytes(st.mem, self, WordBytes(p))]
    ELSE st

\* ptr::write(self, transmute(p)) for a Box header at self
WriteBox(st, self, p) ==
    [st EXCEPT !.mem = WriteBytes(st.mem, self, WordBytes(p))]

RECURSIVE Exhume(_, _, _, _, _)
RECURSIVE ExhumeElems(_, _, _, _, _, _, _)
RECURSIVE ExhumeFields(_, _, _, _, _, _)
\* T::exhume(&mut self, bytes): self is the header at offset self, bytes the
\* region from st.rest to end.
Exhume(T, self, st, b, end) ==
    CASE T.k \in {"u8", "unit"} -> st
      [] T.k = "string" ->
            LET n == ReadWord(st.mem, self + LenOff(T))
            IN  IF TooShort(n, st, end) THEN Fail(st)
                ELSE Claim(WriteOwned(st, self, b + st.rest, n), self, T, n)
      [] T.k = "vec" ->
            LET n == ReadWord(st.mem, self + LenOff(T))
                binary_len == n * SizeOf(T.of)
                mine == st.rest
            IN  IF TooShort(binary_len, st, end) THEN Fail(st)
                ELSE ExhumeElems(T.of, mine,
                                 Claim(WriteOwned(st, self, b + mine, n), self, T,
                                       binary_len),
                                 0, n, b, end)
      [] T.k = "slice" ->
            LET n == ReadWord(st.mem, self + LenOff(T))
                binary_len == n * SizeOf(T.of)
                mine == st.rest
                s1 == ExhumeElems(T.of, mine, Claim(st, self, T, binary_len),
                                  0, n, b, end)
            IN  IF TooShort(binary_len, st, end) THEN Fail(st)
                ELSE IF s1.ok THEN WriteSlice(s1, self, b + mine, n) ELSE s1
      [] T.k = "box" ->
            LET binary_len == SizeOf(T.of)
                mine == st.rest
            IN  IF TooShort(binary_len, st, end) THEN Fail(st)
                ELSE Exhume(T.of, mine,
                            Claim(WriteBox(st, self, b + mine), self, T, binary_len),
                            b, end)
      [] T.k = "opt" ->
            IF IsSome(T, st.mem, self)
            THEN Exhume(T.of, self + PayloadOff(T), st, b, end)
            ELSE st
      [] T.k = "tuple" -> ExhumeFields(T.fs, self, st, 1, b, end)

\* for element in ... { rest = try_option!(element.exhume(temp)); }
ExhumeElems(T, mine, st, i, n, b, end) ==
    IF i >= n \/ ~st.ok THEN st
    ELSE ExhumeElems(T, mine, Exhume(T, mine + i * SizeOf(T), st, b, end),
                     i + 1, n, b, end)

\* bytes = try_option!(self.0.exhume(tmp)); bytes = try_option!(self.1.exhume(tmp)); ...
ExhumeFields(fs, self, st, i, b, end) ==
    IF i > Len(fs) \/ ~st.ok THEN st
    ELSE ExhumeFields(fs, self, Exhume(fs[i], self + FieldOff(fs, i), st, b, end),
                      i + 1, b, end)

\* decode::<T>(bytes), bytes being the n bytes at offset at of buffer mem that
\* lives at address b: [out, ref, rest, mem, segs].  out "some": the pair
\* (reference to address ref, the bytes from offset rest to at + n).
decode(T, mem, b, at, n) ==
    IF n < SizeOf(T)
    THEN [out |-> "none", ref |-> 0, rest |-> at, mem |-> mem, segs |-> <<>>]
    ELSE LET st == Exhume(T, at, [mem |-> mem, rest |-> at + SizeOf(T), ok |-> TRUE,
                                  segs |-> <<>>], b, at + n)
         IN  IF st.ok
             THEN [out |-> "some", ref |-> b + at, rest |-> st.rest, mem |-> st.mem,
                   segs |-> st.segs]
             ELSE [out |-> "none", ref |-> 0, rest |-> at, mem |-> st.mem,
                   segs |-> st.segs]

-----------------------------------------------------------------------------
(* verify: the same reader state; mem is never written. *)

RECURSIVE Verify(_, _, _, _, _)
RECURSIVE VerifyElems(_, _, _, _, _, _, _)
RECURSIVE VerifyFields(_, _, _, _, _, _)
\* T::verify(&self, bytes)
Verify(T, self, st, b, end) ==
    CASE T.k \in {"u8", "unit"} -> st
      [] T.k = "string" ->
            LET n == ReadWord(st.mem, self + LenOff(T))
            IN  IF ~TooShort(n, st, end) /\ AddrMatches(st, self, b)
                THEN Claim(st, self, T, n)
                ELSE Fail(st)
      [] T.k \in {"vec", "slice"} ->
            LET n == ReadWord(st.mem, self + LenOff(T))
                binary_len == n * SizeOf(T.of)
            IN  IF TooShort(binary_len, st, end) THEN Fail(st)
                ELSE IF ~AddrMatches(st, self, b) THEN Fail(st)
                ELSE VerifyElems(T.of, st.rest, Claim(st, self, T, binary_len),
                                 0, n, b, end)
      [] T.k = "box" ->
            LET binary_len == SizeOf(T.of)
            IN  IF TooShort(binary_len, st, end) THEN Fail(st)
                ELSE IF ~AddrMatches(st, self, b) THEN Fail(st)
                ELSE Verify(T.of, st.rest, Claim(st, self, T, binary_len), b, end)
      [] T.k = "opt" ->
            IF IsSome(T, st.mem, self)
            THEN Verify(T.of, self + PayloadOff(T), st, b, end)
            ELSE st
      [] T.k = "tuple" -> VerifyFields(T.fs, self, st, 1, b, end)

VerifyElems(T, mine, st, i, n, b, end) ==
    IF i >= n \/ ~st.ok THEN st
    ELSE VerifyElems(T, mine, Verify(T, mine + i * SizeOf(T), st, b, end),
                     i + 1, n, b, end)

VerifyFields(fs, self, st, i, b, end) ==
    IF i > Len(fs) \/ ~st.ok THEN st
    ELSE VerifyFields(fs, self, Verify(fs[i], self + FieldOff(fs, i), st, b, end),
                      i + 1, b, end)

\* verify::<T>(bytes), bytes being the n bytes at offset at of buffer mem at
\* address b.  &bytes[size_of::<T>()..] panics when the slice is shorter than
\* size_of::<T>(): out "panic".
verify(T, mem, b, at, n) ==
    IF n < SizeOf(T)
    THEN [out |-> "panic", ref |-> 0, rest |-> at, mem |-> mem, segs |-> <<>>]
    ELSE LET st == Verify(T, at, [mem |-> mem, rest |-> at + SizeOf(T), ok |-> TRUE,
                                  segs |-> <<>>], b, at + n)
         IN  IF st.ok
             THEN [out |-> "some", ref |-> b + at, rest |-> st.rest, mem |-> mem,
                   segs |-> st.segs]
             ELSE [out |-> "none", ref |-> 0, rest |-> at, mem |-> mem,
                   segs |-> st.segs]

-----------------------------------------------------------------------------
(* What a typed reference shows: the value read through the reference at    *)
(* address b + off, following the pointers stored in the buffer.  A pointer  *)
(* that does not address bytes of the buffer yields [wild |-> TRUE].        *)

Wild == [wild |-> TRUE]

RECURSIVE ReadVal(_, _, _, _)
ReadVal(T, mem, b, off) ==
    CASE T.k = "u8" -> [n |-> mem[off + 1]]
      [] T.k = "unit" -> [unit |-> TRUE]
      [] T.k = "string" ->
            LET n == ReadWord(mem, off + LenOff(T))
                o == ReadWord(mem, off) - b
            IN  IF n = 0 THEN [bs |-> <<>>]
                ELSE IF o < 0 \/ o + n > Len(mem) THEN Wild
                ELSE [bs |-> SubSeq(mem, o + 1, o + n)]
      [] T.k \in {"vec", "slice"} ->
            LET n == ReadWord(mem, off + LenOff(T))
                sz == SizeOf(T.of)
                o == ReadWord(mem, off) - b
            IN  IF n * sz # 0 /\ (o < 0 \/ o + n * sz > Len(mem)) THEN Wild
                ELSE [es |-> [i \in 1..n |-> ReadVal(T.of, mem, b, o + (i - 1) * sz)]]
      [] T.k = "box" ->
            LET sz == SizeOf(T.of)
                o == ReadWord(mem, off) - b
            IN  IF sz # 0 /\ (o < 0 \/ o + sz > Len(mem)) THEN Wild
                ELSE [v |-> ReadVal(T.of, mem, b, o)]
      [] T.k = "opt" ->
            IF IsSome(T, mem, off)
            THEN [some |-> TRUE, v |-> ReadVal(T.of, mem, b, off + PayloadOff(T))]
            ELSE [some |-> FALSE]
      [] T.k = "tuple" ->
            [fs |-> [i \in 1..Len(T.fs) |-> ReadVal(T.fs[i], mem, b, off + FieldOff(T.fs, i))]]

-----------------------------------------------------------------------------
(* The calls a program makes on one buffer *)

\* The types of the values that share a sink with other values.
SeqTypes == {BoxT(U8), StringT}

\* The values encode may be called with next.
NextInputs ==
    IF encoded = <<>> THEN Inputs
    ELSE IF Len(encoded) < MaxValues /\ \A i \in 1..Len(encoded) : encoded[i].ty \in SeqTypes
    THEN {inp \in Inputs : inp.ty \in SeqTypes}
    ELSE {}

\* The slice lengths verify is called with on the value at offset at with image
\* length len: every length shorter than the header, the image alone, and
\* everything up to the end of the buffer.
VerifyLens(T, at, len) ==
    {k \in 0..(Len(bytes) - at) : k < SizeOf(T) \/ k = len \/ k = Len(bytes) - at}

Init ==
    /\ bytes = <<>>
    /\ base = Addrs[1]
    /\ encoded = <<>>
    /\ last = [op |-> "none"]

\* encode(&val, &mut bytes) with val of type inp.ty: appends val's image.
Encode(inp) ==
    LET st == encode(inp.ty, inp.val, bytes)
    IN  /\ last.op = "none"
        /\ encoded # <<>> => Len(st.bytes) <= MaxSink
        /\ bytes' = st.bytes
        /\ encoded' = Append(encoded, [ty |-> inp.ty, val |-> inp.val, at |-> Len(bytes),
                                       len |-> Len(st.bytes) - Len(bytes),
                                       state |-> "fresh", where |-> 0, k |-> 0])
        /\ last' = [op |-> "encode", i |-> Len(encoded) + 1, pre |-> bytes,
                    log |-> st.log]
        /\ UNCHANGED base

\* decode::<T>(&mut bytes[at .. at + k]) for the T encoded i-th, at its offset.
\* The entry's state records what the call left in the image: "decoded" at the
\* address where it succeeded on k bytes, "partial" when it failed after
\* rewriting some field.
Decode(i, k) ==
    LET e == encoded[i]
        r == decode(e.ty, bytes, base, e.at, k)
    IN  /\ last.op = "none"
        /\ bytes' = r.mem
        /\ encoded' = [encoded EXCEPT ![i] =
                          IF r.out = "some"
                          THEN [e EXCEPT !.state = "decoded", !.where = base, !.k = k]
                          ELSE IF r.mem # bytes
                          THEN [e EXCEPT !.state = "partial", !.where = base, !.k = 0]
                          ELSE e]
        /\ last' = [op |-> "decode", i |-> i, k |-> k, out |-> r.out, ref |-> r.ref,
                    rest |-> r.rest, segs |-> r.segs,
                    was |-> [state |-> e.state, where |-> e.where]]
        /\ UNCHANGED base

\* verify::<T>(&bytes[at .. at + k]) for the T encoded i-th, at its offset.
VerifyCall(i, k) ==
    LET e == encoded[i]
        r == verify(e.ty, bytes, base, e.at, k)
    IN  /\ last.op = "none"
        /\ last' = [op |-> "verify", i |-> i, k |-> k, out |-> r.out, ref |-> r.ref,
                    rest |-> r.rest, segs |-> r.segs]
        /\ UNCHANGED <<bytes, base, encoded>>

\* The caller copies the bytes unchanged into a buffer at another address (a
\* reallocation, a read back from storage) and goes on with the copy.
Move(j) ==
    /\ last.op = "none"
    /\ bytes # <<>>
    /\ base = Addrs[j]
    /\ base' = Addrs[j + 1]
    /\ last' = [op |-> "move", from |-> base]
    /\ UNCHANGED <<bytes, encoded>>

\* The borrow a call took on the buffer ends: what it returned is dropped.
\* encode borrows the sink mutably for the call, decode borrows the slice
\* mutably and verify shares it for as long as the returned references live,
\* so the next call on the buffer comes after this.
Release ==
    /\ last.op # "none"
    /\ last' = [op |-> "none"]
    /\ UNCHANGED <<bytes, base, encoded>>

Next ==
    \/ Release
    \/ \E inp \in NextInputs : Encode(inp)
    \/ \E i \in 1..Len(encoded) : \E k \in 0..(Len(bytes) - encoded[i].at) : Decode(i, k)
    \/ \E i \in 1..Len(encoded) :
          \E k \in VerifyLens(encoded[i].ty, encoded[i].at, encoded[i].len) :
             VerifyCall(i, k)
    \/ \E j \in 1..(Len(Addrs) - 1) : Move(j)

Spec == Init /\ [][Next]_vars

-----------------------------------------------------------------------------
(* Properties *)

\* The entry of the call in last.
LastE == encoded[last.i]

\* The value the reference returned by the last call shows.
LastVal == ReadVal(LastE.ty, bytes, base, last.ref - base)

\* The last call read the whole rest of the buffer from its value's offset on.
ToEnd == last.k = Len(bytes) - LastE.at

DocT == VecT(TupleT(<<U8, StringT>>))

\* C1 (round trip): a value encoded into an empty sink and decoded from the
\* resulting bytes, wherever they live by then, decodes: decode returns Some, the
\* reference is to the first byte, shows a value equal to the one encoded, and
\* no bytes remain.
C1_RoundTrip ==
    (/\ last.op = "decode"
     /\ Len(encoded) = 1
     /\ last.was.state = "fresh"
     /\ last.k = Len(bytes))
    => /\ last.out = "some"
       /\ last.ref = base
       /\ LastVal = Abs(LastE.ty, LastE.val)
       /\ last.rest = Len(bytes)

\* A Vec<(u8, String)> of two elements, one with a non-empty String, has made
\* the round trip.
C1_Witness ==
    /\ last.op = "decode"
    /\ Len(encoded) = 1
    /\ last.was.state = "fresh"
    /\ last.k = Len(bytes)
    /\ last.out = "some"
    /\ LastE.ty = DocT
    /\ Len(LastE.val.es) = 2
    /\ \E j \in 1..2 : LastE.val.es[j].fs[2].bs # <<>>

\* C2 (truncation safety): decode on a slice that holds fewer bytes than the
\* value's image returns None, and every segment it claimed and every header it
\* touched on the way lies inside the slice.
C2_Truncation ==
    (last.op = "decode" /\ last.k < LastE.len)
    => /\ last.out = "none"
       /\ \A j \in 1..Len(last.segs) :
             LET sg == last.segs[j]
             IN  /\ LastE.at <= sg.owner
                 /\ sg.owner + SizeOf(sg.ty) <= LastE.at + last.k
                 /\ LastE.at <= sg.at
                 /\ sg.at + sg.len <= LastE.at + last.k

\* A decode failed on a slice that holds the whole header and part of the tail,
\* after it had claimed a segment.
C2_Witness ==
    /\ last.op = "decode"
    /\ last.k < LastE.len
    /\ last.k > SizeOf(LastE.ty)
    /\ last.out = "none"
    /\ last.segs # <<>>

\* C3 (sequencing): encode leaves the bytes already in the sink as they were
\* and puts the image at the sink's former end; a decode that succeeds consumes
\* exactly the image of its value; and decode on everything from a value's
\* offset to the end of the buffer returns that value and, as the remainder,
\* exactly the images of the values encoded after it (nothing after the last).
C3_Sequencing ==
    /\ last.op = "encode" =>
          /\ LastE.at = Len(last.pre)
          /\ SubSeq(bytes, 1, Len(last.pre)) = last.pre
          /\ LastE.at + LastE.len = Len(bytes)
    /\ (last.op = "decode" /\ last.out = "some") =>
          last.rest = LastE.at + LastE.len
    /\ (last.op = "decode" /\ ToEnd) =>
          /\ last.out = "some"
          /\ LastVal = Abs(LastE.ty, LastE.val)
          /\ last.rest = IF last.i < Len(encoded) THEN encoded[last.i + 1].at
                         ELSE Len(bytes)

\* After a Box and a String were encoded into one sink and the Box was decoded,
\* the String was decoded from the remainder.
C3_Witness ==
    /\ Len(encoded) = 2
    /\ last.op = "decode"
    /\ last.i = 2
    /\ ToEnd
    /\ last.out = "some"
    /\ encoded[1].state = "decoded"
    /\ encoded[1].ty = BoxT(U8)
    /\ encoded[2].ty = StringT
    /\ encoded[2].val.bs # <<>>

\* C4 (validate after decode): once decode has succeeded on a slice and the
\* buffer was neither changed nor moved since, verify on the same slice returns
\* Some, with a reference to the same address showing the value encoded, and the
\* remainder decode returned.
C4_ValidateAfterDecode ==
    (/\ last.op = "verify"
     /\ LastE.state = "decoded"
     /\ LastE.where = base
     /\ last.k = LastE.k)
    => /\ last.out = "some"
       /\ last.ref = base + LastE.at
       /\ LastVal = Abs(LastE.ty, LastE.val)
       /\ last.rest = LastE.at + LastE.len

\* verify succeeded on a decoded Vec<(u8, String)> that holds a non-empty String.
C4_Witness ==
    /\ last.op = "verify"
    /\ LastE.state = "decoded"
    /\ LastE.where = base
    /\ last.k = LastE.k
    /\ last.out = "some"
    /\ LastE.ty = DocT
    /\ \E j \in 1..Len(LastE.val.es) : LastE.val.es[j].fs[2].bs # <<>>

\* C5 (verify on a truncated buffer): verify on a slice shorter than the header
\* of T returns None.
C5_VerifyShortIsNone ==
    (last.op = "verify" /\ last.k < SizeOf(LastE.ty)) => last.out = "none"

RECURSIVE Owns(_, _)
\* The value holds a present owned-buffer value (a String, Vec, slice or Box
\* that is not inside a None): its header has a pointer-valued field.
Owns(T, v) ==
    CASE T.k \in {"u8", "unit"} -> FALSE
      [] T.k \in {"string", "vec", "slice", "box"} -> TRUE
      [] T.k = "opt" -> v.some /\ Owns(T.of, v.v)
      [] T.k = "tuple" -> \E j \in 1..Len(T.fs) : Owns(T.fs[j], v.fs[j])

\* The last call was verify on the whole image of a value that was decoded at
\* another address than the buffer's, or was never decoded.
MovedOrFresh ==
    /\ last.op = "verify"
    /\ last.k >= LastE.len
    /\ \/ LastE.state = "fresh"
       \/ LastE.state = "decoded" /\ LastE.where # base

\* C6 as claimed (a successful verify proves the buffer was not moved): verify
\* on an image decoded at another address, or never decoded, returns None, for
\* every value.
C6_MovedNeverVerifies == MovedOrFresh => last.out = "none"

\* C6 as amended: the same for every value that holds a present owned-buffer
\* value.
C6_MovedOwnerNeverVerifies ==
    (MovedOrFresh /\ Owns(LastE.ty, LastE.val)) => last.out = "none"

\* verify returned None on the moved copy of a decoded Vec<(u8, String)>.
C6_Witness ==
    /\ MovedOrFresh
    /\ LastE.state = "decoded"
    /\ LastE.ty = DocT
    /\ LastE.val.es # <<>>
    /\ last.out = "none"

\* The segments of a reader or of a log, as <<offset, length>> pairs in order.
SegPairs(segs) == [j \in 1..Len(segs) |-> <<segs[j].at, segs[j].len>>]

IsTailWrite(ev) == ev.e = "write" /\ ev.what = "tail"

\* The tail segments entomb appended when the value of entry e was encoded.
EntombSegs(e) == SegPairs(SelectSeq(encode(e.ty, e.val, Fill(e.at, 0)).log, IsTailWrite))

RECURSIVE TailLens(_, _)
\* The lengths of the tail segments of a value in the order of the format: the
\* flat element storage, then each element's own tail in storage order; tuple
\* fields in declared order; nothing for a None.
TailLens(T, v) ==
    CASE T.k \in {"u8", "unit"} -> <<>>
      [] T.k = "string" -> <<Len(v.bs)>>
      [] T.k \in {"vec", "slice"} ->
            <<Len(v.es) * SizeOf(T.of)>>
               \o Concat([j \in 1..Len(v.es) |-> TailLens(T.of, v.es[j])])
      [] T.k = "box" -> <<SizeOf(T.of)>> \o TailLens(T.of, v.v)
      [] T.k = "opt" -> IF v.some THEN TailLens(T.of, v.v) ELSE <<>>
      [] T.k = "tuple" -> Concat([j \in 1..Len(T.fs) |-> TailLens(T.fs[j], v.fs[j])])

RECURSIVE Sum(_)
Sum(ns) == IF ns = <<>> THEN 0 ELSE Head(ns) + Sum(Tail(ns))

\* The tail segments of entry e in the order of the format, laid end to end
\* after the header.
FormatSegs(e) ==
    LET ls == TailLens(e.ty, e.val)
    IN  [j \in 1..Len(ls) |->
            <<e.at + SizeOf(e.ty) + Sum(SubSeq(ls, 1, j - 1)), ls[j]>>]

\* C7 (write order equals consumption order): the segments a successful decode
\* claimed, and those a successful verify checked, are in offset, length and
\* order the tail segments entomb appended when the value was encoded, which
\* are the segments of the format.
C7_SameOrder ==
    (last.op \in {"decode", "verify"} /\ last.out = "some")
    => /\ SegPairs(last.segs) = EntombSegs(LastE)
       /\ EntombSegs(LastE) = FormatSegs(LastE)

\* verify succeeded on a (String, u8, Vec<u8>) whose String and Vec differ in
\* length: two tail segments, one per owning field.
C7_Witness ==
    /\ last.op = "verify"
    /\ last.out = "some"
    /\ LastE.ty = TupleT(<<StringT, U8, VecT(U8)>>)
    /\ Len(last.segs) = 2
    /\ last.segs[1].len # last.segs[2].len
    /\ last.segs[1].len > 0
    /\ last.segs[2].len > 0

RECURSIVE HeadersIn(_, _, _)
\* The owned-buffer headers that are part of the header of type T at offset off:
\* the header itself, or those in its fields and present payload.
HeadersIn(T, mem, off) ==
    CASE T.k \in {"u8", "unit"} -> <<>>
      [] T.k \in {"string", "vec", "slice", "box"} -> <<[ty |-> T, at |-> off]>>
      [] T.k = "opt" -> IF IsSome(T, mem, off)
                        THEN HeadersIn(T.of, mem, off + PayloadOff(T)) ELSE <<>>
      [] T.k = "tuple" ->
            Concat([j \in 1..Len(T.fs) |-> HeadersIn(T.fs[j], mem, off + FieldOff(T.fs, j))])

\* The owned-buffer headers of the image a log wrote: those in every header copy
\* that was embalmed.
ImageHeaders(log, mem) ==
    LET evs == SelectSeq(log, LAMBDA ev : ev.e = "embalm")
    IN  Concat([j \in 1..Len(evs) |-> HeadersIn(evs[j].ty, mem, evs[j].at)])

RECURSIVE OwnedLens(_, _)
\* The lengths of the owned-buffer values of a value, in the order exhume
\* meets them.
OwnedLens(T, v) ==
    CASE T.k \in {"u8", "unit"} -> <<>>
      [] T.k = "string" -> <<Len(v.bs)>>
      [] T.k \in {"vec", "slice"} ->
            <<Len(v.es)>> \o Concat([j \in 1..Len(v.es) |-> OwnedLens(T.of, v.es[j])])
      [] T.k = "box" -> <<1>> \o OwnedLens(T.of, v.v)
      [] T.k = "opt" -> IF v.some THEN OwnedLens(T.of, v.v) ELSE <<>>
      [] T.k = "tuple" -> Concat([j \in 1..Len(T.fs) |-> OwnedLens(T.fs[j], v.fs[j])])

HasCap(T) == T.k \in {"vec", "string"}
CapAt(mem, off) == ReadWord(mem, off + WordSize)
LenAt(T, mem, off) == ReadWord(mem, off + LenOff(T))

\* C8 (capacity normalization): in the image encode wrote every Vec and String
\* header stores a capacity equal to its length, and after a successful decode
\* every Vec and String reached reports a capacity equal to its length, the
\* length being the one the value had when it was encoded.
C8_CapacityIsLength ==
    /\ last.op = "encode" =>
          LET hs == ImageHeaders(last.log, bytes)
          IN  \A j \in 1..Len(hs) :
                 HasCap(hs[j].ty) => CapAt(bytes, hs[j].at) = LenAt(hs[j].ty, bytes, hs[j].at)
    /\ (last.op = "decode" /\ last.out = "some") =>
          LET ns == OwnedLens(LastE.ty, LastE.val)
          IN  /\ Len(last.segs) = Len(ns)
              /\ \A j \in 1..Len(ns) :
                    LET sg == last.segs[j]
                    IN  HasCap(sg.ty) =>
                           /\ LenAt(sg.ty, bytes, sg.owner) = ns[j]
                           /\ CapAt(bytes, sg.owner) = ns[j]

\* A Vec<(u8, String)> with unused capacity, in the Vec and in a String of it,
\* was decoded.
C8_Witness ==
    /\ last.op = "decode"
    /\ last.out = "some"
    /\ LastE.ty = DocT
    /\ LastE.val.es # <<>>
    /\ LastE.val.cap > Len(LastE.val.es)
    /\ LastE.val.es[1].fs[2].cap > Len(LastE.val.es[1].fs[2].bs)

\* The address stored in the pointer field of the owner of segment sg.
PtrOf(sg) == ReadWord(bytes, sg.owner)

\* The bytes the owner of segment sg addresses, by its own length field.
RegionLen(sg) ==
    CASE sg.ty.k = "string" -> LenAt(sg.ty, bytes, sg.owner)
      [] sg.ty.k \in {"vec", "slice"} -> LenAt(sg.ty, bytes, sg.owner) * SizeOf(sg.ty.of)
      [] sg.ty.k = "box" -> SizeOf(sg.ty.of)

\* The addresses of the buffer exhume was given by the last decode: from the
\* end of the header to the end of the slice.
TailStart == base + LastE.at + SizeOf(LastE.ty)
TailEnd == base + LastE.at + last.k

\* C9 as claimed: after a successful decode every pointer field of every owned
\* value addresses a byte of the buffer exhume was given, not its end or beyond.
C9_PointersStrictlyInside ==
    (last.op = "decode" /\ last.out = "some")
    => \A j \in 1..Len(last.segs) :
          TailStart <= PtrOf(last.segs[j]) /\ PtrOf(last.segs[j]) < TailEnd

\* C9 as amended: after a successful decode the region every owned value
\* addresses (from its pointer, as long as its length says) lies inside the
\* buffer exhume was given, a region of no bytes possibly at its very end, and
\* starts at or after the end of the region of every owned value met before it,
\* so no two regions overlap.
C9_RegionsInside ==
    (last.op = "decode" /\ last.out = "some")
    => \A j \in 1..Len(last.segs) :
          LET sg == last.segs[j]
          IN  /\ TailStart <= PtrOf(sg)
              /\ PtrOf(sg) + RegionLen(sg) <= TailEnd
              /\ \A i \in 1..(j - 1) :
                    PtrOf(last.segs[i]) + RegionLen(last.segs[i]) <= PtrOf(sg)

\* A Vec<(u8, String)> was decoded whose last String is empty, so addresses the
\* end of the buffer, and whose first is not.
C9_Witness ==
    /\ last.op = "decode"
    /\ last.out = "some"
    /\ LastE.ty = DocT
    /\ Len(last.segs) = 3
    /\ RegionLen(last.segs[2]) > 0
    /\ RegionLen(last.segs[3]) = 0
    /\ PtrOf(last.segs[3]) = TailEnd

\* The image of entry e as decode leaves it when given a freshly encoded image
\* at the buffer's address.
FreshDecoded(e) ==
    LET fresh == encode(e.ty, e.val, Fill(e.at, 0)).bytes
    IN  SubSeq(decode(e.ty, fresh, base, e.at, e.len).mem, e.at + 1, e.at + e.len)

\* C10 (decode never trusts a stored address): decode on a slice that holds the
\* whole image succeeds whatever the pointer fields held (the sentinel, addresses
\* of an earlier decode elsewhere, addresses partly written by a failed decode):
\* the value equals the one encoded, the image is byte for byte what decoding
\* the fresh image at this address gives, and verify on the slice succeeds.
C10_DecodeRederives ==
    (last.op = "decode" /\ last.k >= LastE.len)
    => /\ last.out = "some"
       /\ LastVal = Abs(LastE.ty, LastE.val)
       /\ SubSeq(bytes, LastE.at + 1, LastE.at + LastE.len) = FreshDecoded(LastE)
       /\ verify(LastE.ty, bytes, base, LastE.at, last.k).out = "some"

\* A decode succeeded on an image that a failed decode had partly patched at
\* another address.
C10_Witness ==
    /\ last.op = "decode"
    /\ last.out = "some"
    /\ last.was.state = "partial"
    /\ last.was.where # base
    /\ Len(last.segs) >= 2

RECURSIVE Relocate(_, _, _)
\* The source value v living d addresses further: every address it holds moved.
Relocate(T, v, d) ==
    CASE T.k \in {"u8", "unit"} -> v
      [] T.k = "string" -> [v EXCEPT !.ptr = @ + d]
      [] T.k \in {"vec", "slice"} ->
            [v EXCEPT !.ptr = @ + d,
                      !.es = [j \in 1..Len(v.es) |-> Relocate(T.of, v.es[j], d)]]
      [] T.k = "box" -> [v EXCEPT !.ptr = @ + d, !.v = Relocate(T.of, v.v, d)]
      [] T.k = "opt" -> IF v.some THEN [v EXCEPT !.v = Relocate(T.of, v.v, d)] ELSE v
      [] T.k = "tuple" ->
            [v EXCEPT !.fs = [j \in 1..Len(T.fs) |-> Relocate(T.fs[j], v.fs[j], d)]]

RECURSIVE TailSteps(_, _)
\* The steps the tail-serialization of the original value v is to take, without
\* their offsets: per owned-buffer value, its storage appended as the original
\* holds it, then one embalm per element copy, then the elements' own tails.
TailSteps(T, v) ==
    CASE T.k \in {"u8", "unit"} -> <<>>
      [] T.k = "string" -> <<[e |-> "write", bs |-> v.bs]>>
      [] T.k \in {"vec", "slice"} ->
            <<[e |-> "write", bs |-> typed_to_bytes(T.of, v.es)]>>
               \o [j \in 1..Len(v.es) |-> [e |-> "embalm", ty |-> T.of]]
               \o Concat([j \in 1..Len(v.es) |-> TailSteps(T.of, v.es[j])])
      [] T.k = "box" ->
            <<[e |-> "write", bs |-> HeaderBytes(T.of, v.v)], [e |-> "embalm", ty |-> T.of]>>
               \o TailSteps(T.of, v.v)
      [] T.k = "opt" -> IF v.some THEN TailSteps(T.of, v.v) ELSE <<>>
      [] T.k = "tuple" -> Concat([j \in 1..Len(T.fs) |-> TailSteps(T.fs[j], v.fs[j])])

\* The steps encode is to take on the original value v of type T.
EncodeSteps(T, v) ==
    <<[e |-> "write", bs |-> HeaderBytes(T, v)], [e |-> "embalm", ty |-> T]>>
       \o TailSteps(T, v)

IsWrite(ev) == ev.e = "write"
IsEmbalm(ev) == ev.e = "embalm"

\* Of a sequence of steps: their kinds, the bytes of its writes, the types of
\* its embalms.
Kinds(steps) == [j \in 1..Len(steps) |-> steps[j].e]
WrittenBytes(steps) ==
    LET ws == SelectSeq(steps, IsWrite) IN [j \in 1..Len(ws) |-> ws[j].bs]
EmbalmedTypes(steps) ==
    LET es == SelectSeq(steps, IsEmbalm) IN [j \in 1..Len(es) |-> es[j].ty]

\* The index of the last write among the first j steps of log (0 if none).
RECURSIVE LastWrite(_, _)
LastWrite(log, j) ==
    IF j = 0 THEN 0 ELSE IF log[j].e = "write" THEN j ELSE LastWrite(log, j - 1)

\* The number of bytes the first j steps of log appended.
RECURSIVE Appended(_, _)
Appended(log, j) ==
    IF j = 0 THEN 0
    ELSE Appended(log, j - 1) + (IF log[j].e = "write" THEN log[j].len ELSE 0)

====
